---- MODULE Spec2Model ----
(***************************************************************************)
(* Model of GWS/gws-log-collection/gws-get-logs-2.py: the paginated fetch  *)
(* (Google._get_activity_logs), the per-application loop (Google.get_logs),*)
(* the incremental scanner (Google._check_recent_date) and the __main__    *)
(* block with its day splitter.                                            *)
(*                                                                         *)
(* Python values are tagged records: None, a str holding an RFC3339 text,  *)
(* a str holding a page token, a datetime (second, microsecond).  A file   *)
(* is a sequence of lines, a line is the json.dumps text of one record.    *)
(***************************************************************************)
EXTENDS Integers, Sequences, FiniteSets, TLC

VARIABLES
    pc,               \* position of the single thread of control
    args,             \* argparse namespace of __main__ (after the config merge)
    self,             \* the Google object: app_list, update, overwrite
    fs,               \* file path -> sequence of lines (the files that exist)
    folders,          \* the directories that exist under output_path
    start_time,       \* __main__: cursor of the daily loop
    end_time,         \* __main__: overall end of the daily loop
    from_date,        \* get_logs: parameter (reassigned in update mode)
    to_date,          \* get_logs: parameter
    app_index,        \* get_logs: position of the for loop in app_list
    total_saved,      \* get_logs: local
    total_found,      \* get_logs: local
    call,             \* _get_activity_logs: its parameters
    page_token,       \* _get_activity_logs: local
    output_count,     \* _get_activity_logs: local
    total_records,    \* _get_activity_logs: local
    ret,              \* _get_activity_logs: returned pair
    requests,         \* history: list calls issued by the current fetch
    responses,        \* history: responses received by the current fetch
    file0,            \* history: lines of the output file when the fetch began
    truncations,      \* history: opens with mode 'w' in the current fetch
    fetches,          \* history: fetches of the current get_logs invocation
    invocations,      \* history: get_logs invocations of the run
    quota             \* what the remote may still return in this run (bounded):
                      \* records, continuation tokens, records per page,
                      \* responses whose nextPageToken is the empty string

vars == <<pc, args, self, fs, folders, start_time, end_time, from_date, to_date,
          app_index, total_saved, total_found, call, page_token, output_count,
          total_records, ret, requests, responses, file0, truncations, fetches,
          invocations, quota>>

mainVars == <<args, start_time, end_time, invocations>>
selfVars == <<self>>
logsVars == <<from_date, to_date, app_index, total_saved, total_found, fetches>>
fetchVars == <<call, page_token, output_count, total_records, ret, requests,
               responses, file0, truncations>>
remoteVars == <<quota>>

----------------------------------------------------------------------------
\* Bounds of the model.
MaxEventTime == 2        \* records carry id.time in 1..MaxEventTime
MaxItems == 2            \* records in one page
MaxPages == 2            \* pages the remote chains with continuation tokens
MaxApps == 2             \* length of the application list
MaxDay == 2              \* last calendar day of a configured start/end time

\* Program constants.
SecondsPerDay == 86400
LastSecondOfDay == 86399
LastMicrosecond == 999999

----------------------------------------------------------------------------
\* Python values.
None == [kind |-> "None"]
TimeStr(t) == [kind |-> "str", rfc3339 |-> t]
TokenStr(n) == [kind |-> "str", token |-> n]
Datetime(s, u) == [kind |-> "datetime", sec |-> s, usec |-> u]

EmptyStr == [kind |-> "str", text |-> ""]

\* Python truth value of None / str / datetime.
Truthy(v) == ~(v = None \/ v = EmptyStr)

\* a or b
PyOr(a, b) == IF Truthy(a) THEN a ELSE b

\* Python ints and bools (a bool is an int: False counts 0 in `total += saved`).
PyInt(n) == [kind |-> "int", n |-> n]
PyBool(b) == [kind |-> "bool", b |-> b]
AsInt(v) == IF v.kind = "bool" THEN (IF v.b THEN 1 ELSE 0) ELSE v.n

\* datetime < datetime
DtLess(a, b) == a.sec < b.sec \/ (a.sec = b.sec /\ a.usec < b.usec)

\* The instant (in seconds) a start/end value denotes, for values that denote one.
Instant(v) == IF v.kind = "datetime" THEN v.sec ELSE v.rfc3339

SeqsUpTo(S, n) == UNION {[1..k -> S] : k \in 0..n}

RECURSIVE Reversed(_)
Reversed(s) == IF s = <<>> THEN <<>> ELSE Append(Reversed(Tail(s)), Head(s))

RECURSIVE SumSeq(_)
SumSeq(s) == IF s = <<>> THEN 0 ELSE Head(s) + SumSeq(Tail(s))

RECURSIVE Concat(_)
Concat(ss) == IF ss = <<>> THEN <<>> ELSE Head(ss) \o Concat(Tail(ss))

----------------------------------------------------------------------------
\* Activity records and file lines.
\* The oldest and the newest record the remote holds.
Events == {[id |-> [time |-> 1]], [id |-> [time |-> MaxEventTime]]}

\* json.dumps(entry) and json.loads(line): a line is text, not a record.
Dumps(entry) == [json |-> entry]
Loads(line) == line.json

\* dateparser.parse(json_obj['id']['time'])
ParseTime(entry) == Datetime(entry.id.time, 0)

DEFAULT_APPLICATIONS ==
    <<"chrome", "admin", "access_transparency", "context_aware_access">>

Apps == {DEFAULT_APPLICATIONS[k] : k \in 1..Len(DEFAULT_APPLICATIONS)}

\* f"{value}" of a str, None or datetime: a datetime prints as str(datetime),
\* which is not the RFC3339 text of the same instant.
FString(v) ==
    CASE v.kind = "None" -> [text |-> "None"]
      [] v.kind = "str" -> [text |-> "rfc3339", t |-> v.rfc3339]
      [] v.kind = "datetime" -> [text |-> "datetime.__str__", sec |-> v.sec, usec |-> v.usec]

\* folder = f"{self.output_path}/{from_date}_{to_date}"
Folder(from, to) == <<FString(from), FString(to)>>

\* output_file = f"{folder}/{app}_logs.json"
OutputFile(folder, app) == [folder |-> folder, app |-> app]

\* Lines of a file, none when the file is absent.
Lines(files, path) == IF path \in DOMAIN files THEN files[path] ELSE <<>>

----------------------------------------------------------------------------
\* Google._check_recent_date
RECURSIVE MostRecent(_, _)
MostRecent(lines, return_date) ==
    IF lines = <<>> THEN return_date
    ELSE LET line_datetime == ParseTime(Loads(Head(lines)))
         IN  MostRecent(Tail(lines),
                        IF ~Truthy(return_date) THEN line_datetime
                        ELSE IF DtLess(return_date, line_datetime) THEN line_datetime
                        ELSE return_date)

check_recent_date(log_file_path) ==
    IF log_file_path \in DOMAIN fs THEN MostRecent(fs[log_file_path], None) ELSE None

----------------------------------------------------------------------------
\* The remote list endpoint: what one execute() may return.  A response is a
\* dict in which 'items' and 'nextPageToken' may each be missing.
\* A continuation token is an opaque cursor, a new one on every page.
FreshToken == TokenStr(quota.tokens)

ItemLists == SeqsUpTo(Events, IF quota.records < quota.page
                              THEN quota.records ELSE quota.page) \ {<<>>}

TokenChoices ==
    (IF quota.empties > 0 THEN {EmptyStr} ELSE {})
    \cup (IF quota.tokens > 0 THEN {FreshToken} ELSE {})

RemoteResponses ==
    {[kind |-> "activities"]}
    \cup {[kind |-> "activities", items |-> it] : it \in ItemLists}
    \cup {[kind |-> "activities", nextPageToken |-> tk] : tk \in TokenChoices}
    \cup {[kind |-> "activities", items |-> it, nextPageToken |-> tk] :
            it \in ItemLists, tk \in TokenChoices}

\* A variant of NextPageToken that never reads the response's token.
NextPageTokenDropped(results) == EmptyStr

\* results.get('nextPageToken', "")
NextPageToken(results) ==
    IF "nextPageToken" \in DOMAIN results THEN results.nextPageToken ELSE EmptyStr

\* results.get('items', [])
Activities(results) ==
    IF "items" \in DOMAIN results THEN results.items ELSE <<>>

\* 'w' if overwrite else 'a'
OpenMode(overwrite) == IF overwrite THEN "w" ELSE "a"

\* open(output_file, mode) and the writes of one page
WritePage(files, path, mode, activities) ==
    LET before == IF mode = "w" THEN <<>> ELSE Lines(files, path)
        written == [k \in 1..Len(activities) |-> Dumps(Reversed(activities)[k])]
    IN  [p \in DOMAIN files \cup {path} |->
            IF p = path THEN before \o written ELSE files[p]]

\* A variant of ErrorReturn that reports the counts reached before the error.
ErrorReturnCounts == <<PyInt(output_count), PyInt(total_records)>>

\* return False, False
ErrorReturn == <<PyBool(FALSE), PyBool(FALSE)>>

Request == [userKey |-> "all", applicationName |-> call.application_name,
            pageToken |-> page_token, startTime |-> call.start_time,
            endTime |-> call.end_time]

\* One iteration of the while loop in which execute() raises TypeError.
ListRaises ==
    /\ pc = "list"
    /\ requests' = Append(requests, Request)
    /\ ret' = ErrorReturn
    /\ pc' = "fetch_returned"
    /\ UNCHANGED <<mainVars, selfVars, logsVars, fs, folders, call, page_token,
                   output_count, total_records, responses, file0, truncations,
                   remoteVars>>

\* One iteration of the while loop in which execute() returns a page.
ListPage ==
    /\ pc = "list"
    /\ \E results \in RemoteResponses :
        LET token == NextPageToken(results)
            activities == Activities(results)
            mode == OpenMode(call.overwrite)
        IN  /\ requests' = Append(requests, Request)
            /\ responses' = Append(responses, results)
            /\ quota' = [quota EXCEPT
                            !.records = @ - Len(activities),
                            !.tokens = @ - (IF Truthy(token) THEN 1 ELSE 0),
                            !.empties = @ - (IF "nextPageToken" \in DOMAIN results
                                                /\ ~Truthy(token) THEN 1 ELSE 0)]
            /\ page_token' = token
            /\ IF activities # <<>>
               THEN /\ total_records' = total_records + Len(activities)
                    /\ fs' = WritePage(fs, call.output_file, mode, activities)
                    /\ output_count' = output_count + Len(activities)
                    /\ truncations' = truncations + (IF mode = "w" THEN 1 ELSE 0)
               ELSE UNCHANGED <<total_records, fs, output_count, truncations>>
            /\ IF ~Truthy(token)
               THEN /\ ret' = <<PyInt(output_count'), PyInt(total_records')>>
                    /\ pc' = "fetch_returned"
               ELSE /\ pc' = "list"
                    /\ UNCHANGED ret
    /\ UNCHANGED <<mainVars, selfVars, logsVars, folders, call, file0>>

----------------------------------------------------------------------------
\* Google.get_logs

\* The call get_logs(from_date=fd, to_date=td): parameters bound, line 92.
EnterGetLogs(fd, td) ==
    /\ from_date' = fd
    /\ to_date' = td
    /\ app_index' = 1
    /\ total_saved' = 0
    /\ total_found' = 0
    /\ fetches' = <<>>
    /\ invocations' = Append(invocations, [from_date |-> fd, to_date |-> td])
    /\ pc' = "get_logs"

\* from_date as passed on to the fetch of one application (lines 106-107).
EffectiveFrom(update, output_file, from) ==
    IF update THEN PyOr(check_recent_date(output_file), from) ELSE from

\* One iteration of `for app in self.app_list` up to the call of
\* _get_activity_logs (lines 94-115).
GetLogsApp ==
    /\ pc = "get_logs"
    /\ app_index <= Len(self.app_list)
    /\ LET app == self.app_list[app_index]
           folder == Folder(from_date, to_date)
           output_file == OutputFile(folder, app)
           from == EffectiveFrom(self.update, output_file, from_date)
       IN  /\ folders' = folders \cup {folder}
           /\ from_date' = from
           /\ call' = [application_name |-> app, output_file |-> output_file,
                       overwrite |-> self.overwrite, start_time |-> from,
                       end_time |-> to_date]
           /\ file0' = Lines(fs, output_file)
    /\ page_token' = None
    /\ output_count' = 0
    /\ total_records' = 0
    /\ requests' = <<>>
    /\ responses' = <<>>
    /\ truncations' = 0
    /\ pc' = "list"
    /\ UNCHANGED <<mainVars, selfVars, fs, to_date, app_index, total_saved,
                   total_found, fetches, ret, remoteVars>>

\* The rest of the iteration, after _get_activity_logs returned (lines 116-118).
GetLogsAccumulate ==
    /\ pc = "fetch_returned"
    /\ total_saved' = total_saved + AsInt(ret[1])
    /\ total_found' = total_found + AsInt(ret[2])
    /\ fetches' = Append(fetches, [call |-> call, requests |-> requests,
                                   responses |-> responses, file0 |-> file0,
                                   ret |-> ret])
    /\ app_index' = app_index + 1
    /\ pc' = "get_logs"
    /\ UNCHANGED <<mainVars, selfVars, fs, folders, from_date, to_date,
                   fetchVars, remoteVars>>

\* The for loop is exhausted (line 120).
GetLogsReturn ==
    /\ pc = "get_logs"
    /\ app_index > Len(self.app_list)
    /\ pc' = "get_logs_returned"
    /\ UNCHANGED <<mainVars, selfVars, logsVars, fs, folders, fetchVars, remoteVars>>

----------------------------------------------------------------------------
\* The day splitter and __main__

\* datetime.datetime.strptime(text, fmt) and datetime.datetime.strftime(dt, fmt)
\* with fmt = '%Y-%m-%dT%H:%M:%SZ': the text carries whole seconds.
Strptime(text) == Datetime(text.rfc3339, 0)
Strftime(dt) == TimeStr(dt.sec)

DayOf(dt) == dt.sec \div SecondsPerDay

\* datetime.datetime.combine(day, datetime.time.min)
get_start_of_the_day(day) == Datetime(DayOf(day) * SecondsPerDay, 0)

\* datetime.datetime.combine(day, datetime.time.max)
get_end_of_the_day(day) ==
    Datetime(DayOf(day) * SecondsPerDay + LastSecondOfDay, LastMicrosecond)

\* start_time + datetime.timedelta(days=1)
PlusOneDay(dt) == Datetime(dt.sec + SecondsPerDay, dt.usec)

\* end_of_day of one window (lines 243-246)
WindowEnd(start, end) ==
    LET end_of_day == get_end_of_the_day(start)
    IN  IF DtLess(end, end_of_day) THEN end ELSE end_of_day

\* --daily: the two strptime calls (lines 237-240); strptime(None) raises.
MainDaily ==
    /\ pc = "main"
    /\ args.daily
    /\ IF args.start_time = None \/ args.end_time = None
       THEN /\ pc' = "crashed"
            /\ UNCHANGED <<start_time, end_time>>
       ELSE /\ start_time' = Strptime(args.start_time)
            /\ end_time' = Strptime(args.end_time)
            /\ pc' = "daily"
    /\ UNCHANGED <<args, invocations, selfVars, logsVars, fs, folders, fetchVars,
                   remoteVars>>

\* One window of the while loop up to the call of get_logs (lines 242-259).
DailyWindow ==
    /\ pc = "daily"
    /\ DtLess(start_time, end_time)
    /\ EnterGetLogs(Strftime(start_time), Strftime(WindowEnd(start_time, end_time)))
    /\ UNCHANGED <<args, start_time, end_time, selfVars, fs, folders, fetchVars,
                   remoteVars>>

\* After get_logs returned: the cursor moves to the next midnight (lines 260-261).
DailyAdvance ==
    /\ pc = "get_logs_returned"
    /\ args.daily
    /\ start_time' = get_start_of_the_day(PlusOneDay(start_time))
    /\ pc' = "daily"
    /\ UNCHANGED <<args, end_time, invocations, selfVars, logsVars, fs, folders,
                   fetchVars, remoteVars>>

\* The while condition fails (line 242).
DailyExit ==
    /\ pc = "daily"
    /\ ~DtLess(start_time, end_time)
    /\ pc' = "done"
    /\ UNCHANGED <<mainVars, selfVars, logsVars, fs, folders, fetchVars, remoteVars>>

\* Without --daily: google.get_logs(args.from_date) (line 263).  The namespace
\* has a from_date attribute only when the config file supplied that key;
\* otherwise the attribute lookup raises AttributeError.
MainSingle ==
    /\ pc = "main"
    /\ ~args.daily
    /\ IF "from_date" \in DOMAIN args
       THEN /\ EnterGetLogs(args.from_date, None)
       ELSE /\ pc' = "crashed"
            /\ UNCHANGED <<logsVars, invocations>>
    /\ UNCHANGED <<args, start_time, end_time, selfVars, fs, folders, fetchVars,
                   remoteVars>>

\* The script ends after the single get_logs call.
MainExit ==
    /\ pc = "get_logs_returned"
    /\ ~args.daily
    /\ pc' = "done"
    /\ UNCHANGED <<mainVars, selfVars, logsVars, fs, folders, fetchVars, remoteVars>>

----------------------------------------------------------------------------
\* Initial states.

\* --apps: the first applications of DEFAULT_APPLICATIONS, in its order.
AppLists == {SubSeq(DEFAULT_APPLICATIONS, 1, n) : n \in 0..MaxApps}

Event(t) == [id |-> [time |-> t]]

\* What a file written by earlier runs may hold.
FileContents ==
    {<<>>, <<Dumps(Event(1))>>, <<Dumps(Event(MaxEventTime)), Dumps(Event(1))>>}

\* Locals that hold nothing before the function that owns them is entered.
IdleMain == start_time = None /\ end_time = None

IdleGetLogs ==
    /\ from_date = None /\ to_date = None
    /\ app_index = 1 /\ total_saved = 0 /\ total_found = 0
    /\ fetches = <<>>

IdleFetch ==
    /\ page_token = None
    /\ output_count = 0 /\ total_records = 0
    /\ ret = <<PyInt(0), PyInt(0)>>
    /\ requests = <<>> /\ responses = <<>>
    /\ truncations = 0

\* The whole script, from __main__, on an empty output directory.
ConfiguredTimes ==
    {None} \cup {TimeStr(d * SecondsPerDay + s) :
                    d \in 0..MaxDay, s \in {0, 43200, LastSecondOfDay}}

Init ==
    /\ pc = "main"
    /\ \E daily \in BOOLEAN, st \in ConfiguredTimes, et \in ConfiguredTimes :
          \/ args = [daily |-> daily, start_time |-> st, end_time |-> et]
          \/ /\ ~daily
             /\ \E fd \in {None, TimeStr(0)} :
                   args = [daily |-> daily, start_time |-> st, end_time |-> et,
                           from_date |-> fd]
    /\ self \in [app_list : AppLists \ {<<>>}, update : BOOLEAN, overwrite : BOOLEAN]
    /\ fs = [p \in {} |-> <<>>]
    /\ folders = {}
    /\ IdleMain /\ IdleGetLogs /\ IdleFetch
    /\ call = [application_name |-> "chrome",
               output_file |-> OutputFile(Folder(None, None), "chrome"),
               overwrite |-> FALSE, start_time |-> None, end_time |-> None]
    /\ file0 = <<>>
    /\ invocations = <<>>
    /\ quota = [records |-> 1, tokens |-> MaxPages - 1, page |-> 1, empties |-> 0]

NextFetch == ListRaises \/ ListPage

NextGetLogs == GetLogsApp \/ GetLogsAccumulate \/ GetLogsReturn \/ NextFetch

Next ==
    \/ MainDaily \/ DailyWindow \/ DailyAdvance \/ DailyExit
    \/ MainSingle \/ MainExit
    \/ NextGetLogs

Spec == Init /\ [][Next]_vars

\* One get_logs invocation of a constructed Google object, on an output
\* directory in which files of that date range may already exist.
DateRanges == {<<None, None>>, <<TimeStr(1), TimeStr(MaxEventTime)>>}

InitGetLogs ==
    /\ pc = "get_logs"
    /\ args = [daily |-> FALSE, start_time |-> None, end_time |-> None]
    /\ self \in [app_list : AppLists, update : BOOLEAN, overwrite : BOOLEAN]
    /\ \E range \in DateRanges :
          /\ from_date = range[1]
          /\ to_date = range[2]
          /\ invocations = <<[from_date |-> range[1], to_date |-> range[2]]>>
          /\ \E present \in SUBSET {self.app_list[k] : k \in 1..Len(self.app_list)} :
             \E content \in FileContents :
                /\ (present = {} => content = <<>>)
                /\ folders = IF present = {} THEN {} ELSE {Folder(range[1], range[2])}
                /\ fs = [p \in {OutputFile(Folder(range[1], range[2]), a) : a \in present}
                            |-> content]
    /\ IdleMain /\ IdleFetch
    /\ app_index = 1 /\ total_saved = 0 /\ total_found = 0
    /\ fetches = <<>>
    /\ call = [application_name |-> "chrome",
               output_file |-> OutputFile(Folder(None, None), "chrome"),
               overwrite |-> FALSE, start_time |-> None, end_time |-> None]
    /\ file0 = <<>>
    /\ quota = [records |-> MaxItems - 1, tokens |-> MaxPages - 1,
                page |-> MaxItems - 1, empties |-> 0]

SpecGetLogs == InitGetLogs /\ [][NextGetLogs]_vars

\* A single call of _get_activity_logs, from any arguments and any file.
SomePath == OutputFile(Folder(None, None), "chrome")

InitFetch ==
    /\ pc = "list"
    /\ args = [daily |-> FALSE, start_time |-> None, end_time |-> None]
    /\ self = [app_list |-> <<"chrome">>, update |-> FALSE, overwrite |-> FALSE]
    /\ fs \in {[p \in {} |-> <<>>]} \cup {[p \in {SomePath} |-> c] : c \in FileContents}
    /\ folders = {Folder(None, None)}
    /\ IdleMain /\ IdleGetLogs /\ IdleFetch
    /\ call \in [application_name : {"chrome"}, output_file : {SomePath},
                 overwrite : BOOLEAN, start_time : {None, TimeStr(1)},
                 end_time : {None}]
    /\ file0 = Lines(fs, SomePath)
    /\ invocations = <<>>
    /\ quota = [records |-> MaxItems + 1, tokens |-> MaxPages - 1, page |-> MaxItems,
                empties |-> 1]

SpecFetch == InitFetch /\ [][NextFetch]_vars

----------------------------------------------------------------------------
\* Properties.

\* The list call of the current fetch raised.
Errored == Len(requests) > Len(responses)

PageItems(r) == IF "items" \in DOMAIN r THEN r.items ELSE <<>>

HasContinuation(r) == "nextPageToken" \in DOMAIN r /\ r.nextPageToken # EmptyStr

AllItems(rs) == Concat([k \in 1..Len(rs) |-> PageItems(rs[k])])

DumpAll(items) == [k \in 1..Len(items) |-> Dumps(items[k])]

\* page 1 reversed, then page 2 reversed, ...
PagesReversed(rs) ==
    Concat([k \in 1..Len(rs) |-> DumpAll(Reversed(PageItems(rs[k])))])

IsPrefix(a, b) == Len(a) <= Len(b) /\ SubSeq(b, 1, Len(a)) = a
IsSuffix(a, b) == Len(a) <= Len(b) /\ SubSeq(b, Len(b) - Len(a) + 1, Len(b)) = a

TimesOf(lines) == {Loads(lines[k]).id.time : k \in 1..Len(lines)}
MaxOf(S) == CHOOSE m \in S : \A x \in S : x <= m

NewestFirst(items) ==
    \A i \in 1..Len(items) : \A j \in i..Len(items) : items[i].id.time >= items[j].id.time

\* The fetches get_logs has started in the current invocation.
StartedFetches ==
    {[call |-> fetches[k].call, file0 |-> fetches[k].file0,
      responses |-> fetches[k].responses] : k \in 1..Len(fetches)}
    \cup (IF pc \in {"list", "fetch_returned"}
          THEN {[call |-> call, file0 |-> file0, responses |-> responses]}
          ELSE {})

Invocation == invocations[Len(invocations)]

SameInstant(a, b) ==
    \/ a = None /\ b = None
    \/ a # None /\ b # None /\ Instant(a) = Instant(b)

FetchErrored(f) == Len(f.requests) > Len(f.responses)

Contribution(f) == IF FetchErrored(f) THEN 0 ELSE Len(AllItems(f.responses))

\* C1: when _get_activity_logs returns without error having fetched records,
\* the file holds (after the prior content in append mode, alone in overwrite
\* mode) page 1 reversed, then page 2 reversed, and so on, and overwrite mode
\* truncated the file once.
C1_FileHoldsAllPagesReversed ==
    (pc = "fetch_returned" /\ ~Errored /\ AllItems(responses) # <<>>) =>
        /\ Lines(fs, call.output_file) =
              (IF call.overwrite THEN <<>> ELSE file0) \o PagesReversed(responses)
        /\ (call.overwrite => truncations = 1)

\* C2: in update mode every fetch of a get_logs invocation is sent the newest
\* id.time of its own output file when that file has lines, and the start time
\* the invocation was called with otherwise.
C2_UpdateStartPerApplication ==
    self.update =>
        \A f \in StartedFetches :
            IF f.file0 # <<>>
            THEN /\ f.call.start_time # None
                 /\ Instant(f.call.start_time) = MaxOf(TimesOf(f.file0))
            ELSE SameInstant(f.call.start_time, Invocation.from_date)

\* The configured range begins on one calendar day and ends inside the day
\* two days later (after its midnight).
SpansThreeDays ==
    /\ args.daily
    /\ args.start_time # None /\ args.end_time # None
    /\ DayOf(Strptime(args.end_time)) = DayOf(Strptime(args.start_time)) + 2
    /\ Strptime(args.end_time) # get_start_of_the_day(Strptime(args.end_time))

\* C3: with --daily a range spanning three days gives exactly three get_logs
\* invocations, the first beginning at the overall start, each next one
\* beginning where the previous one ends, the last ending at the overall end.
C3_ThreeContiguousWindows ==
    (pc = "done" /\ SpansThreeDays) =>
        /\ Len(invocations) = 3
        /\ invocations[1].from_date = args.start_time
        /\ invocations[3].to_date = args.end_time
        /\ \A k \in 1..2 : invocations[k + 1].from_date = invocations[k].to_date

\* C4: after _get_activity_logs completes, in overwrite mode every line of the
\* file was written by this call, and in append mode the prior content is a
\* prefix of the file.
C4_OverwriteDropsAppendKeeps ==
    (pc = "fetch_returned" /\ ~Errored) =>
        IF call.overwrite
        THEN IsSuffix(Lines(fs, call.output_file), PagesReversed(responses))
        ELSE IsPrefix(file0, Lines(fs, call.output_file))

\* C5: get_logs fetches the applications of the list once each, in list order,
\* whichever of them raised, and an application whose list call raised adds
\* zero to the saved and to the found total.
C5_ErrorsCountZeroAndLoopContinues ==
    /\ Len(fetches) <= Len(self.app_list)
    /\ \A k \in 1..Len(fetches) :
          fetches[k].call.application_name = self.app_list[k]
    /\ app_index = Len(fetches) + 1
    /\ (pc = "get_logs_returned" => Len(fetches) = Len(self.app_list))
    /\ total_saved = SumSeq([k \in 1..Len(fetches) |-> Contribution(fetches[k])])
    /\ total_found = SumSeq([k \in 1..Len(fetches) |-> Contribution(fetches[k])])

\* The list call of the first application raised after a page of records had
\* been written, the next application was still fetched, and the totals hold
\* nothing for the failed one.
C5_Witness ==
    /\ pc = "get_logs_returned"
    /\ Len(fetches) = 2
    /\ FetchErrored(fetches[1])
    /\ AllItems(fetches[1].responses) # <<>>
    /\ ~FetchErrored(fetches[2])
    /\ total_saved = 0 /\ total_found = 0

HonoursStart(f) ==
    \/ f.call.start_time = None
    \/ \A k \in 1..Len(AllItems(f.responses)) :
          AllItems(f.responses)[k].id.time >= Instant(f.call.start_time)

\* C6: in update mode (appending), when the remote returns only records at or
\* after the requested start time, no record the file already held is written
\* to it again.
C6_UpdateSavesOnlyNewRecords ==
    (self.update /\ ~self.overwrite) =>
        \A f \in StartedFetches :
            HonoursStart(f) =>
                \A k \in 1..Len(AllItems(f.responses)) :
                    \A j \in 1..Len(f.file0) :
                        f.file0[j] # Dumps(AllItems(f.responses)[k])

\* C7: every fetch of a get_logs invocation reads and writes
\* <output_path>/<from_date>_<to_date>/<app>_logs.json, with from_date and
\* to_date as the invocation was called.
C7_OneFilePerApplicationAndRange ==
    \A f \in StartedFetches :
        f.call.output_file =
            OutputFile(Folder(Invocation.from_date, Invocation.to_date),
                       f.call.application_name)

\* C8: on an empty or absent file, with the remote returning records newest
\* first, the last line of the file is a record with the newest id.time fetched.
C8_FileEndsWithNewest ==
    (/\ pc = "fetch_returned" /\ ~Errored
     /\ file0 = <<>>
     /\ AllItems(responses) # <<>>
     /\ NewestFirst(AllItems(responses))) =>
        LET lines == Lines(fs, call.output_file)
        IN  /\ lines # <<>>
            /\ Loads(lines[Len(lines)]).id.time = MaxOf(TimesOf(DumpAll(AllItems(responses))))

\* C9: without --daily the run makes one get_logs invocation, and every list
\* call carries the configured --start-time and --end-time.
C9_SingleRunUsesConfiguredTimes ==
    (~args.daily /\ pc \in {"done", "crashed"}) =>
        /\ Len(invocations) = 1
        /\ \A k \in 1..Len(fetches) : \A j \in 1..Len(fetches[k].requests) :
              /\ fetches[k].requests[j].startTime = args.start_time
              /\ fetches[k].requests[j].endTime = args.end_time

\* C10: the first list call carries no page token, every later call carries the
\* nextPageToken of the response before it, the loop goes on exactly while the
\* last response has a non-empty token, and one call is issued per page.
C10_PaginatorFollowsTokens ==
    /\ Len(requests) \in {Len(responses), Len(responses) + 1}
    /\ (requests # <<>> => requests[1].pageToken = None)
    /\ \A k \in 2..Len(requests) :
          /\ HasContinuation(responses[k - 1])
          /\ requests[k].pageToken = responses[k - 1].nextPageToken
    /\ (pc = "list" =>
          /\ Len(requests) = Len(responses)
          /\ (responses # <<>> => HasContinuation(responses[Len(responses)])))
    /\ (pc = "fetch_returned" /\ ~Errored =>
          /\ responses # <<>>
          /\ ~HasContinuation(responses[Len(responses)]))

\* A fetch of several pages that ended on a response with an empty token.
C10_Witness ==
    /\ pc = "fetch_returned" /\ ~Errored
    /\ Len(requests) = MaxPages
    /\ requests[2].pageToken = responses[1].nextPageToken
    /\ "nextPageToken" \in DOMAIN responses[Len(responses)]

====
